---- MODULE Spec2Model ----
(***************************************************************************)
(* Model of the chainlit application src/app.py: the per-session message   *)
(* history, the turn handler on_message (suspending at every await), the   *)
(* process-wide tool cache mcp_tools_cache and the MCP handlers on_mcp and *)
(* on_mcp_disconnect.                                                      *)
(***************************************************************************)
EXTENDS Integers, Sequences, FiniteSets, TLC

\* ---------------------------------------------------------------- bounds
MaxTurns     == 2   \* on_message invocations over the whole run
MaxEvents    == 3   \* stream events delivered over the whole run
MaxMcpEvents == 3   \* on_mcp / on_mcp_disconnect invocations over the whole run
MaxJoint     == 3   \* handler invocations and stream events when all handlers interleave

\* ------------------------------------------------------------ input sets
Sessions  == {"sA", "sB"}
Names     == {"n1", "n2"}
UserTexts == {"hi", "bye"}

\* list_tools() results, already converted to the dicts of lines 89-96
ToolLists == { <<"t1">>, <<"t2", "t3">> }

\* stream events as on_message looks at them: the type, whether event.data has
\* a delta attribute, and the delta's text as a sequence of characters
DeltaA     == [type |-> "raw_response_event", hasDelta |-> TRUE,  delta |-> <<"A">>]
DeltaB     == [type |-> "raw_response_event", hasDelta |-> TRUE,  delta |-> <<"B">>]
RawNoDelta == [type |-> "raw_response_event", hasDelta |-> FALSE, delta |-> <<>>]
ToolCall   == [type |-> "tool_call_event",    hasDelta |-> FALSE, delta |-> <<>>]
ToolResult == [type |-> "tool_result_event",  hasDelta |-> FALSE, delta |-> <<>>]
OtherEvent == [type |-> "run_item_stream_event", hasDelta |-> FALSE, delta |-> <<>>]
StreamEvents == {DeltaA, DeltaB, RawNoDelta, ToolCall, ToolResult, OtherEvent}

Turns == 1..MaxTurns

VARIABLES
    status,           \* session -> "new" | "active" | "ended"
    message_history,  \* session -> the list under user_session["message_history"]
    mcp_tools_cache,  \* the module-level dict: name -> tool list
    mcp_tools,        \* session -> the dict under user_session["mcp_tools"]
    conns,            \* live MCP connections, as <<session, name>>
    mcpTask,          \* <<session, name>> -> position of the on_mcp invocation
    mcpLog,           \* handled MCP events, in the order their effect took place
    overlapped,       \* TRUE once two MCP handlers have been in flight together
    mcpOut,           \* <<session, name>> -> what the MCP handlers last told the user
    turn,             \* turn id -> the on_message invocation
    cli               \* the batch script src/llms/llm_cli.py: main's position and files

vars == << status, message_history, mcp_tools_cache, mcp_tools, conns,
           mcpTask, mcpLog, overlapped, mcpOut, turn, cli >>

mcpVars  == << mcp_tools_cache, mcp_tools, conns, mcpTask, mcpLog, overlapped, mcpOut >>

\* ------------------------------------------------------------- helpers
\* d[k] = v on a dict
Put(d, k, v) == [x \in (DOMAIN d) \cup {k} |-> IF x = k THEN v ELSE d[x]]

\* del d[k]
Del(d, k) == [x \in (DOMAIN d) \ {k} |-> d[x]]

EmptyDict == [x \in {} |-> <<>>]

SeedMessage == [role |-> "system", content |-> <<"You are a helpful assistant.">>]

IdleTurn == [pc |-> "idle", session |-> "sA", text |-> "hi", content |-> <<>>,
             events |-> <<>>, rendered |-> <<>>, servers |-> {},
             cacheAtStart |-> {}, sent |-> {}]

\* nothing told to the user yet about connection <<session, name>>: no outcome
\* message of on_mcp (with the tool count it names and the list list_tools()
\* returned), no outcome of on_mcp_disconnect
NoOutcome == [note |-> "none", count |-> 0, returned |-> <<>>, disc |-> "none"]

\* main() of the batch script has not been entered
CliIdle == [pc |-> "start", provider |-> "gemini", model |-> 1, prompt |-> 1,
            files |-> EmptyDict, calls |-> <<>>]

\* the values of LLM_PROVIDER, lower-cased; "other" is any unsupported one
Providers == {"azure_openai", "gemini", "other"}

\* lines 122-127
llm_model_list(provider) ==
    IF provider = "azure_openai" THEN << "gpt-4o", "gpt-4.1", "o3" >>
    ELSE IF provider = "gemini"
      THEN << "gemini-2.0-flash-exp", "gemini-1.5-flash", "gemini-1.5-pro" >>
    ELSE << >>

\* lines 142-146
prompts_list == << "Carthage, North Africa, Army",
                  "Roman Empire, Albania, Army",
                  "Mongol Empire, Manchuria, Army" >>

\* lines 159-161 and 165-167: the three lines written for one prompt
Entry(idx, kind) == [idx |-> idx, prompt |-> prompts_list[idx], kind |-> kind]

\* agent_with_mcp() called without argument: the hard-coded server list
DefaultServers == {"openai"}

Init ==
    /\ status = [s \in Sessions |-> "new"]
    /\ message_history = [s \in Sessions |-> <<>>]
    /\ mcp_tools_cache = EmptyDict
    /\ mcp_tools = [s \in Sessions |-> EmptyDict]
    /\ conns = {}
    /\ mcpTask = [c \in Sessions \X Names |-> "idle"]
    /\ mcpLog = <<>>
    /\ overlapped = FALSE
    /\ mcpOut = [c \in Sessions \X Names |-> NoOutcome]
    /\ turn = [t \in Turns |-> IdleTurn]
    /\ cli = CliIdle

TypeOK ==
    /\ status \in [Sessions -> {"new", "active", "ended"}]
    /\ \A s \in Sessions :
          \A i \in 1..Len(message_history[s]) :
              /\ message_history[s][i].role \in {"system", "user", "assistant"}
              /\ DOMAIN message_history[s][i] = {"role", "content"}
    /\ DOMAIN mcp_tools_cache \subseteq Names
    /\ \A n \in DOMAIN mcp_tools_cache : mcp_tools_cache[n] \in ToolLists
    /\ \A s \in Sessions :
          /\ DOMAIN mcp_tools[s] \subseteq Names
          /\ \A n \in DOMAIN mcp_tools[s] : mcp_tools[s][n] \in ToolLists
    /\ conns \subseteq Sessions \X Names
    /\ mcpTask \in [Sessions \X Names -> {"idle", "listing", "found", "error", "raised"}]
    /\ \A i \in 1..Len(mcpLog) :
          mcpLog[i] \in [kind : {"success", "failure", "disconnect"},
                         session : Sessions, name : Names]
    /\ overlapped \in BOOLEAN
    /\ \A t \in Turns :
          /\ turn[t].pc \in {"idle", "send", "stream", "done", "failed", "cancelled"}
          /\ turn[t].session \in Sessions
          /\ turn[t].text \in UserTexts
          /\ \A i \in 1..Len(turn[t].events) : turn[t].events[i] \in StreamEvents
          /\ turn[t].servers \in {{}, DefaultServers}
          /\ turn[t].cacheAtStart \subseteq Names
          /\ turn[t].sent \subseteq {"reply", "error"}
    /\ \A c \in Sessions \X Names :
          /\ mcpOut[c].note \in {"none", "found", "error"}
          /\ mcpOut[c].count \in 0..2
          /\ mcpOut[c].returned \in ToolLists \cup {<<>>}
          /\ mcpOut[c].disc \in {"none", "notified", "raised"}
    /\ cli.pc \in {"start", "open", "prompt", "done", "raised"}
    /\ cli.provider \in Providers
    /\ cli.model \in 1..Len(llm_model_list("gemini"))
    /\ cli.prompt \in 1..Len(prompts_list)
    /\ DOMAIN cli.files \subseteq { llm_model_list(cli.provider)[i] :
                                      i \in 1..Len(llm_model_list(cli.provider)) }
    /\ \A m \in DOMAIN cli.files : \A j \in 1..Len(cli.files[m]) :
          cli.files[m][j] \in [idx : 1..Len(prompts_list),
                               prompt : { prompts_list[i] : i \in 1..Len(prompts_list) },
                               kind : {"Response", "Error"}]
    /\ \A i \in 1..Len(cli.calls) : cli.calls[i] \in {"returned", "raised"}

\* --------------------------------------------------------------- session
start_chat(s) ==
    /\ status[s] = "new"
    /\ status' = [status EXCEPT ![s] = "active"]
    /\ message_history' = [message_history EXCEPT ![s] = << SeedMessage >>]
    /\ UNCHANGED << mcpVars, turn, cli >>

\* the user disconnects; no handler of the application is registered for it
SessionEnd(s) ==
    /\ status[s] = "active"
    /\ status' = [status EXCEPT ![s] = "ended"]
    /\ UNCHANGED << message_history, mcpVars, turn, cli >>

\* ------------------------------------------------------------ on_message
NextTurnId == CHOOSE t \in Turns :
                 /\ turn[t].pc = "idle"
                 /\ \A u \in Turns : u < t => turn[u].pc # "idle"

EventsDelivered == LET RECURSIVE Sum(_)
                       Sum(t) == IF t = 0 THEN 0 ELSE Len(turn[t].events) + Sum(t - 1)
                   IN Sum(MaxTurns)

\* on_message with one module-level history list instead of the session's own
OnMessageBegin_SharedHistory(s, text) ==
    /\ status[s] = "active"
    /\ \E t \in Turns : turn[t].pc = "idle"
    /\ LET t == NextTurnId IN
         /\ message_history' = [x \in Sessions |->
                IF status[x] = "new" THEN message_history[x]
                ELSE Append(message_history[x], [role |-> "user", content |-> <<text>>])]
         /\ turn' = [turn EXCEPT ![t] =
                [IdleTurn EXCEPT !.pc = "send", !.session = s, !.text = text,
                                 !.cacheAtStart = DOMAIN mcp_tools_cache,
                                 !.sent = {"reply"}]]
    /\ UNCHANGED << status, mcpVars, cli >>

\* lines 57-61: append the user message, create the empty reply, await send
OnMessageBegin(s, text) ==
    /\ status[s] = "active"
    /\ \E t \in Turns : turn[t].pc = "idle"
    /\ LET t == NextTurnId IN
         /\ message_history' = [message_history EXCEPT
                ![s] = Append(@, [role |-> "user", content |-> <<text>>])]
         /\ turn' = [turn EXCEPT ![t] =
                [IdleTurn EXCEPT !.pc = "send", !.session = s, !.text = text,
                                 !.cacheAtStart = DOMAIN mcp_tools_cache,
                                 !.sent = {"reply"}]]
    /\ UNCHANGED << status, mcpVars, cli >>

\* on_message waiting, before line 63, until no connect attempt is awaiting
\* list_tools()
OnMessageRun_WaitsForMcp(t) ==
    /\ turn[t].pc = "send"
    /\ \A c \in Sessions \X Names : mcpTask[c] # "listing"
    /\ turn' = [turn EXCEPT ![t].pc = "stream", ![t].servers = DefaultServers]
    /\ UNCHANGED << status, message_history, mcpVars, cli >>

\* lines 63-64: build the agent and start the streamed run
OnMessageRun(t) ==
    /\ turn[t].pc = "send"
    /\ turn' = [turn EXCEPT ![t].pc = "stream", ![t].servers = DefaultServers]
    /\ UNCHANGED << status, message_history, mcpVars, cli >>

\* line 64 raises: the run cannot be set up
OnMessageSetupFails(t) ==
    /\ turn[t].pc = "send"
    /\ turn' = [turn EXCEPT ![t].pc = "failed"]
    /\ UNCHANGED << status, message_history, mcpVars, cli >>

\* the dispatch with stream_token replacing the content instead of appending
Dispatch_ReplacesContent(tr, ev) ==
    IF ev.type = "raw_response_event" /\ ev.hasDelta
      THEN [tr EXCEPT !.content = ev.delta, !.rendered = Append(@, "token")]
    ELSE IF ev.type = "tool_call_event"
      THEN [tr EXCEPT !.rendered = Append(@, "tool_call")]
    ELSE IF ev.type = "tool_result_event"
      THEN [tr EXCEPT !.rendered = Append(@, "tool_result")]
    ELSE tr

\* the dispatch showing a tool call ahead of what is already rendered
Dispatch_ToolCallFirst(tr, ev) ==
    IF ev.type = "raw_response_event" /\ ev.hasDelta
      THEN [tr EXCEPT !.content = @ \o ev.delta, !.rendered = Append(@, "token")]
    ELSE IF ev.type = "tool_call_event"
      THEN [tr EXCEPT !.rendered = <<"tool_call">> \o @]
    ELSE IF ev.type = "tool_result_event"
      THEN [tr EXCEPT !.rendered = Append(@, "tool_result")]
    ELSE tr

\* the dispatch without the hasattr test of line 67: event.data.delta of a raw
\* event that has none raises
Dispatch_NoHasattr(tr, ev) ==
    IF ev.type = "raw_response_event"
      THEN IF ev.hasDelta
             THEN [tr EXCEPT !.content = @ \o ev.delta, !.rendered = Append(@, "token")]
             ELSE [tr EXCEPT !.pc = "failed"]
    ELSE IF ev.type = "tool_call_event"
      THEN [tr EXCEPT !.rendered = Append(@, "tool_call")]
    ELSE IF ev.type = "tool_result_event"
      THEN [tr EXCEPT !.rendered = Append(@, "tool_result")]
    ELSE tr

\* lines 67-76: the dispatch on one event
Dispatch(tr, ev) ==
    IF ev.type = "raw_response_event" /\ ev.hasDelta
      THEN [tr EXCEPT !.content = @ \o ev.delta, !.rendered = Append(@, "token")]
    ELSE IF ev.type = "tool_call_event"
      THEN [tr EXCEPT !.rendered = Append(@, "tool_call")]
    ELSE IF ev.type = "tool_result_event"
      THEN [tr EXCEPT !.rendered = Append(@, "tool_result")]
    ELSE tr

\* line 66: the stream yields one event
OnStreamEvent(t, ev) ==
    /\ turn[t].pc = "stream"
    /\ EventsDelivered < MaxEvents
    /\ turn' = [turn EXCEPT ![t] = Dispatch([@ EXCEPT !.events = Append(@, ev)], ev)]
    /\ UNCHANGED << status, message_history, mcpVars, cli >>

\* line 78 storing the reply over the last entry instead of appending it
OnStreamEnd_Overwrites(t) ==
    /\ turn[t].pc = "stream"
    /\ message_history' = [message_history EXCEPT ![turn[t].session] =
           [@ EXCEPT ![Len(@)] = [role |-> "assistant", content |-> turn[t].content]]]
    /\ turn' = [turn EXCEPT ![t].pc = "done"]
    /\ UNCHANGED << status, mcpVars, cli >>

\* lines 78-79: the stream is exhausted
OnStreamEnd(t) ==
    /\ turn[t].pc = "stream"
    /\ message_history' = [message_history EXCEPT ![turn[t].session] =
           Append(@, [role |-> "assistant", content |-> turn[t].content])]
    /\ turn' = [turn EXCEPT ![t].pc = "done"]
    /\ UNCHANGED << status, mcpVars, cli >>

\* a failing stream that takes the session down with it
OnStreamFails_EndsSession(t) ==
    /\ turn[t].pc = "stream"
    /\ turn' = [turn EXCEPT ![t].pc = "failed"]
    /\ status' = [status EXCEPT ![turn[t].session] = "ended"]
    /\ UNCHANGED << message_history, mcpVars, cli >>

\* line 66 raises: the stream fails mid-flight
OnStreamFails(t) ==
    /\ turn[t].pc = "stream"
    /\ turn' = [turn EXCEPT ![t].pc = "failed"]
    /\ UNCHANGED << status, message_history, mcpVars, cli >>

\* the framework cancels the task at one of its awaits (lines 61, 66, 69-76)
OnMessageCancelled(t) ==
    /\ turn[t].pc \in {"send", "stream"}
    /\ turn' = [turn EXCEPT ![t].pc = "cancelled"]
    /\ UNCHANGED << status, message_history, mcpVars, cli >>

\* ------------------------------------------------- on_mcp / on_mcp_disconnect
McpInFlight == { c \in Sessions \X Names : mcpTask[c] = "listing" }

McpBudgetLeft == Len(mcpLog) + Cardinality(McpInFlight) < MaxMcpEvents

\* lines 84-87: the connection is up, the handler awaits list_tools()
OnMcpBegin(s, n) ==
    /\ status[s] = "active"
    /\ mcpTask[<<s, n>>] # "listing"
    /\ McpBudgetLeft
    /\ mcpTask' = [mcpTask EXCEPT ![<<s, n>>] = "listing"]
    /\ mcpOut' = [mcpOut EXCEPT ![<<s, n>>] = [NoOutcome EXCEPT !.disc = mcpOut[<<s, n>>].disc]]
    /\ conns' = conns \cup {<<s, n>>}
    /\ overlapped' = (overlapped \/ McpInFlight # {})
    /\ UNCHANGED << status, message_history, mcp_tools_cache, mcp_tools, mcpLog, turn, cli >>

\* line 100 extending the cached list instead of replacing it
OnMcpTools_Appends(s, n, tools) ==
    /\ mcpTask[<<s, n>>] = "listing"
    /\ mcp_tools_cache' = Put(mcp_tools_cache, n,
            IF n \in DOMAIN mcp_tools_cache THEN mcp_tools_cache[n] \o tools ELSE tools)
    /\ mcp_tools' = [mcp_tools EXCEPT ![s] = Put(@, n, tools)]
    /\ mcpTask' = [mcpTask EXCEPT ![<<s, n>>] = "found"]
    /\ mcpOut' = [mcpOut EXCEPT ![<<s, n>>].note = "found",
                                ![<<s, n>>].count = Len(tools),
                                ![<<s, n>>].returned = tools]
    /\ mcpLog' = Append(mcpLog, [kind |-> "success", session |-> s, name |-> n])
    /\ UNCHANGED << status, message_history, conns, overlapped, turn, cli >>

\* lines 89-108: list_tools() returned
OnMcpTools(s, n, tools) ==
    /\ mcpTask[<<s, n>>] = "listing"
    /\ mcp_tools_cache' = Put(mcp_tools_cache, n, tools)
    /\ mcp_tools' = [mcp_tools EXCEPT ![s] = Put(@, n, tools)]
    /\ mcpTask' = [mcpTask EXCEPT ![<<s, n>>] = "found"]
    /\ mcpOut' = [mcpOut EXCEPT ![<<s, n>>].note = "found",
                                ![<<s, n>>].count = Len(tools),
                                ![<<s, n>>].returned = tools]
    /\ mcpLog' = Append(mcpLog, [kind |-> "success", session |-> s, name |-> n])
    /\ UNCHANGED << status, message_history, conns, overlapped, turn, cli >>

\* on_mcp without its try/except: the failure of list_tools() leaves the handler
OnMcpError_Unhandled(s, n) ==
    /\ mcpTask[<<s, n>>] = "listing"
    /\ mcpTask' = [mcpTask EXCEPT ![<<s, n>>] = "raised"]
    /\ UNCHANGED mcpOut
    /\ mcpLog' = Append(mcpLog, [kind |-> "failure", session |-> s, name |-> n])
    /\ UNCHANGED << status, message_history, mcp_tools_cache, mcp_tools, conns,
                    overlapped, turn, cli >>

\* lines 109-110: list_tools() (or the conversion of its result) raised
OnMcpError(s, n) ==
    /\ mcpTask[<<s, n>>] = "listing"
    /\ mcpTask' = [mcpTask EXCEPT ![<<s, n>>] = "error"]
    /\ mcpOut' = [mcpOut EXCEPT ![<<s, n>>].note = "error"]
    /\ mcpLog' = Append(mcpLog, [kind |-> "failure", session |-> s, name |-> n])
    /\ UNCHANGED << status, message_history, mcp_tools_cache, mcp_tools, conns,
                    overlapped, turn, cli >>

\* on_mcp_disconnect without lines 115-116: only the session's mapping is cleaned
OnMcpDisconnect_SessionOnly(s, n) ==
    /\ status[s] = "active"
    /\ McpBudgetLeft
    /\ mcp_tools' = IF n \in DOMAIN mcp_tools[s]
                      THEN [mcp_tools EXCEPT ![s] = Del(@, n)] ELSE mcp_tools
    /\ conns' = conns \ {<<s, n>>}
    /\ overlapped' = (overlapped \/ McpInFlight # {})
    /\ mcpLog' = Append(mcpLog, [kind |-> "disconnect", session |-> s, name |-> n])
    /\ mcpOut' = [mcpOut EXCEPT ![<<s, n>>].disc = "notified"]
    /\ UNCHANGED << status, message_history, mcp_tools_cache, mcpTask, turn, cli >>

\* line 116 without the test of line 115: del raises KeyError for an absent name
OnMcpDisconnect_NoGuard(s, n) ==
    /\ status[s] = "active"
    /\ McpBudgetLeft
    /\ IF n \in DOMAIN mcp_tools_cache
         THEN /\ mcp_tools_cache' = Del(mcp_tools_cache, n)
              /\ mcp_tools' = IF n \in DOMAIN mcp_tools[s]
                                THEN [mcp_tools EXCEPT ![s] = Del(@, n)] ELSE mcp_tools
              /\ mcpOut' = [mcpOut EXCEPT ![<<s, n>>].disc = "notified"]
         ELSE /\ UNCHANGED << mcp_tools_cache, mcp_tools >>
              /\ mcpOut' = [mcpOut EXCEPT ![<<s, n>>].disc = "raised"]
    /\ conns' = conns \ {<<s, n>>}
    /\ overlapped' = (overlapped \/ McpInFlight # {})
    /\ mcpLog' = Append(mcpLog, [kind |-> "disconnect", session |-> s, name |-> n])
    /\ UNCHANGED << status, message_history, mcpTask, turn, cli >>

\* lines 115-123
OnMcpDisconnect(s, n) ==
    /\ status[s] = "active"
    /\ McpBudgetLeft
    /\ mcp_tools_cache' = IF n \in DOMAIN mcp_tools_cache
                            THEN Del(mcp_tools_cache, n) ELSE mcp_tools_cache
    /\ mcp_tools' = IF n \in DOMAIN mcp_tools[s]
                      THEN [mcp_tools EXCEPT ![s] = Del(@, n)] ELSE mcp_tools
    /\ conns' = conns \ {<<s, n>>}
    /\ overlapped' = (overlapped \/ McpInFlight # {})
    /\ mcpLog' = Append(mcpLog, [kind |-> "disconnect", session |-> s, name |-> n])
    /\ mcpOut' = [mcpOut EXCEPT ![<<s, n>>].disc = "notified"]
    /\ UNCHANGED << status, message_history, mcpTask, turn, cli >>

\* ---------------------------------------- the MCP handlers when a send raises
\* lines 89-110 when the send of line 106 raises: the cache and the session's
\* mapping are already written; the except branch sends the error message, and
\* when that send raises too (errOk = FALSE) the exception leaves the handler
OnMcpToolsNotifyFails(s, n, tools, errOk) ==
    /\ mcpTask[<<s, n>>] = "listing"
    /\ mcp_tools_cache' = Put(mcp_tools_cache, n, tools)
    /\ mcp_tools' = [mcp_tools EXCEPT ![s] = Put(@, n, tools)]
    /\ mcpTask' = [mcpTask EXCEPT ![<<s, n>>] = IF errOk THEN "found" ELSE "raised"]
    /\ mcpOut' = [mcpOut EXCEPT ![<<s, n>>].note = IF errOk THEN "error" ELSE "none",
                                ![<<s, n>>].returned = tools]
    /\ mcpLog' = Append(mcpLog, [kind |-> "success", session |-> s, name |-> n])
    /\ UNCHANGED << status, message_history, conns, overlapped, turn, cli >>

\* lines 109-110 when list_tools() raised and the send of line 110 raises too
OnMcpErrorNotifyFails(s, n) ==
    /\ mcpTask[<<s, n>>] = "listing"
    /\ mcpTask' = [mcpTask EXCEPT ![<<s, n>>] = "raised"]
    /\ mcpLog' = Append(mcpLog, [kind |-> "failure", session |-> s, name |-> n])
    /\ UNCHANGED << status, message_history, mcp_tools_cache, mcp_tools, conns,
                    overlapped, mcpOut, turn, cli >>

\* on_mcp_disconnect sending its message before lines 115-121: the raise skips them
OnMcpDisconnectNotifyFails_SendFirst(s, n) ==
    /\ status[s] = "active"
    /\ McpBudgetLeft
    /\ conns' = conns \ {<<s, n>>}
    /\ overlapped' = (overlapped \/ McpInFlight # {})
    /\ mcpLog' = Append(mcpLog, [kind |-> "disconnect", session |-> s, name |-> n])
    /\ mcpOut' = [mcpOut EXCEPT ![<<s, n>>].disc = "raised"]
    /\ UNCHANGED << status, message_history, mcp_tools_cache, mcp_tools, mcpTask, turn, cli >>

\* lines 115-123 when the send of line 123 raises: the entries are already removed
OnMcpDisconnectNotifyFails(s, n) ==
    /\ status[s] = "active"
    /\ McpBudgetLeft
    /\ mcp_tools_cache' = IF n \in DOMAIN mcp_tools_cache
                            THEN Del(mcp_tools_cache, n) ELSE mcp_tools_cache
    /\ mcp_tools' = IF n \in DOMAIN mcp_tools[s]
                      THEN [mcp_tools EXCEPT ![s] = Del(@, n)] ELSE mcp_tools
    /\ conns' = conns \ {<<s, n>>}
    /\ overlapped' = (overlapped \/ McpInFlight # {})
    /\ mcpLog' = Append(mcpLog, [kind |-> "disconnect", session |-> s, name |-> n])
    /\ mcpOut' = [mcpOut EXCEPT ![<<s, n>>].disc = "raised"]
    /\ UNCHANGED << status, message_history, mcpTask, turn, cli >>

\* a read of the tool cache by a handler running in session s: every session
\* reads the one module-level dict
snapshot_FromSession(s) == mcp_tools[s]

snapshot(s) == mcp_tools_cache

\* ------------------------------------------------------------------ Next
NextSession ==
    \/ \E s \in Sessions : start_chat(s)
    \/ \E s \in Sessions : SessionEnd(s)

NextTurn ==
    \/ \E s \in Sessions, text \in UserTexts : OnMessageBegin(s, text)
    \/ \E t \in Turns : OnMessageRun(t)
    \/ \E t \in Turns : OnMessageSetupFails(t)
    \/ \E t \in Turns, ev \in StreamEvents : OnStreamEvent(t, ev)
    \/ \E t \in Turns : OnStreamEnd(t)
    \/ \E t \in Turns : OnStreamFails(t)
    \/ \E t \in Turns : OnMessageCancelled(t)

NextMcp ==
    \/ \E s \in Sessions, n \in Names : OnMcpBegin(s, n)
    \/ \E s \in Sessions, n \in Names, tools \in ToolLists : OnMcpTools(s, n, tools)
    \/ \E s \in Sessions, n \in Names : OnMcpError(s, n)
    \/ \E s \in Sessions, n \in Names : OnMcpDisconnect(s, n)

NextMcpNotifyFails ==
    \/ \E s \in Sessions, n \in Names, tools \in ToolLists, errOk \in BOOLEAN :
          OnMcpToolsNotifyFails(s, n, tools, errOk)
    \/ \E s \in Sessions, n \in Names : OnMcpErrorNotifyFails(s, n)
    \/ \E s \in Sessions, n \in Names : OnMcpDisconnectNotifyFails(s, n)

\* ------------------------------------------------ the batch script's main
appVars == << status, message_history, mcpVars, turn >>

\* lines 115-146: the provider is read, the model list chosen, ./output emptied
main_begin(p) ==
    /\ cli.pc = "start"
    /\ cli' = IF llm_model_list(p) = << >>
                THEN [cli EXCEPT !.pc = "raised", !.provider = p]
                ELSE [cli EXCEPT !.pc = "open", !.provider = p, !.model = 1,
                                 !.files = EmptyDict]
    /\ UNCHANGED appVars

\* lines 148-151: the file of the next model is opened for writing
main_open ==
    /\ cli.pc = "open"
    /\ cli' = [cli EXCEPT !.pc = "prompt", !.prompt = 1,
                          !.files = Put(@, llm_model_list(cli.provider)[cli.model], << >>)]
    /\ UNCHANGED appVars

\* lines 148 and 152: the loops move on after the entry for one prompt
Advance(c) ==
    IF c.prompt < Len(prompts_list) THEN [c EXCEPT !.prompt = @ + 1]
    ELSE IF c.model < Len(llm_model_list(c.provider))
      THEN [c EXCEPT !.pc = "open", !.model = @ + 1]
    ELSE [c EXCEPT !.pc = "done"]

\* a raising generate_completion with no try around it: main ends there
generate_completion_raises_Uncaught ==
    /\ cli.pc = "prompt"
    /\ cli' = [cli EXCEPT !.pc = "raised", !.calls = Append(@, "raised")]
    /\ UNCHANGED appVars

\* lines 155-161: generate_completion returns
generate_completion_returns ==
    /\ cli.pc = "prompt"
    /\ LET m == llm_model_list(cli.provider)[cli.model] IN
         cli' = Advance([cli EXCEPT !.files[m] = Append(@, Entry(cli.prompt, "Response")),
                                    !.calls = Append(@, "returned")])
    /\ UNCHANGED appVars

\* lines 162-167: generate_completion raises
generate_completion_raises ==
    /\ cli.pc = "prompt"
    /\ LET m == llm_model_list(cli.provider)[cli.model] IN
         cli' = Advance([cli EXCEPT !.files[m] = Append(@, Entry(cli.prompt, "Error")),
                                    !.calls = Append(@, "raised")])
    /\ UNCHANGED appVars

NextCli ==
    \/ \E p \in Providers : main_begin(p)
    \/ main_open
    \/ generate_completion_returns
    \/ generate_completion_raises

\* handler invocations and stream events so far, over both kinds of handler
JointWork ==
    Len(mcpLog) + Cardinality(McpInFlight) + EventsDelivered
      + Cardinality({ t \in Turns : turn[t].pc # "idle" })

JointBudgetLeft == JointWork < MaxJoint

Next ==
    \/ \E s \in Sessions : start_chat(s)
    \/ \E s \in Sessions : SessionEnd(s)
    \/ \E s \in Sessions, text \in UserTexts : JointBudgetLeft /\ OnMessageBegin(s, text)
    \/ \E t \in Turns : OnMessageRun(t)
    \/ \E t \in Turns : OnMessageSetupFails(t)
    \/ \E t \in Turns, ev \in StreamEvents : JointBudgetLeft /\ OnStreamEvent(t, ev)
    \/ \E t \in Turns : OnStreamEnd(t)
    \/ \E t \in Turns : OnStreamFails(t)
    \/ \E t \in Turns : OnMessageCancelled(t)
    \/ \E s \in Sessions, n \in Names : JointBudgetLeft /\ OnMcpBegin(s, n)
    \/ \E s \in Sessions, n \in Names, tools \in ToolLists : OnMcpTools(s, n, tools)
    \/ \E s \in Sessions, n \in Names : OnMcpError(s, n)
    \/ \E s \in Sessions, n \in Names : JointBudgetLeft /\ OnMcpDisconnect(s, n)

\* every handler of the application, interleaved
Spec == Init /\ [][Next]_vars

\* every handler, where the event loop resumes a turn whose await has completed
\* and a finite stream ends; nothing makes list_tools() return
FairSpec ==
    /\ Spec
    /\ \A t \in Turns : WF_vars(OnMessageRun(t)) /\ WF_vars(OnStreamEnd(t))

\* the turn handler alone: the MCP handlers write no variable it reads
SpecTurn == Init /\ [][NextSession \/ NextTurn]_vars

\* the MCP handlers alone
SpecMcp == Init /\ [][NextSession \/ NextMcp]_vars

\* the MCP handlers with a notification channel that may fail
SpecNotify == Init /\ [][NextSession \/ NextMcp \/ NextMcpNotifyFails]_vars

\* the batch script
SpecCli == Init /\ [][NextCli]_vars

\* ======================================================= MCP handlers: claims
McpKinds == {"success", "failure", "disconnect"}

\* the kind of the last handled event on name n among the kinds given
LastKind(n, kinds) ==
    LET idx == { i \in 1..Len(mcpLog) : mcpLog[i].name = n /\ mcpLog[i].kind \in kinds }
    IN IF idx = {} THEN "none"
       ELSE mcpLog[CHOOSE i \in idx : \A j \in idx : j <= i].kind

\* every event so far was handled after the one before it had been handled
Sequential == ~overlapped /\ McpInFlight = {}

\* C1 as stated: after events handled one after another, the names in the tool
\* cache are the names whose last event (connect-success, connect-failure or
\* disconnect) was connect-success.
C1_CacheIsLastEventSuccess ==
    Sequential =>
        DOMAIN mcp_tools_cache = { n \in Names : LastKind(n, McpKinds) = "success" }

\* C1 amended: after events handled one after another, the names in the tool
\* cache are the names whose last event other than a connect-failure was
\* connect-success (a connect-failure leaves the cache as it was).
C1_CacheIsLastConnectOrDisconnect ==
    Sequential =>
        DOMAIN mcp_tools_cache =
            { n \in Names : LastKind(n, {"success", "disconnect"}) = "success" }

C1_Witness ==
    /\ Sequential
    /\ \E n \in Names :
          /\ LastKind(n, McpKinds) = "failure"
          /\ LastKind(n, {"success", "disconnect"}) = "success"
          /\ n \in DOMAIN mcp_tools_cache

\* C2: every name in the tool cache belongs to a connection that has not
\* disconnected, under every interleaving of on_mcp and on_mcp_disconnect.
C2_NoStaleName ==
    \A n \in DOMAIN mcp_tools_cache : \E s \in Sessions : <<s, n>> \in conns

C8_SharedCacheConsistency ==
    \A a \in Sessions, b \in Sessions, n \in Names :
        LET last == LastKind(n, {"success", "disconnect"}) IN
        /\ last = "success" => (n \in DOMAIN snapshot(a) /\ n \in DOMAIN snapshot(b))
        /\ last = "disconnect" =>
              (n \notin DOMAIN snapshot(a) /\ n \notin DOMAIN snapshot(b))

\* session a handled a connect and a disconnect; session b, which handled
\* neither, sees the first name and not the second
C8_Witness ==
    \E a \in Sessions, b \in Sessions, n \in Names, m \in Names :
        /\ a # b /\ n # m
        /\ \A i \in 1..Len(mcpLog) : mcpLog[i].session = a
        /\ LastKind(n, {"success", "disconnect"}) = "success"
        /\ LastKind(m, {"success", "disconnect"}) = "disconnect"
        /\ status[b] = "active"
        /\ n \in DOMAIN snapshot(b) /\ m \notin DOMAIN snapshot(b)

\* ============================================================= turns: claims
InFlight(t) == turn[t].pc \in {"send", "stream"}

\* the texts of the events that carry a delta, concatenated in arrival order
RECURSIVE ConcatDeltas(_)
ConcatDeltas(evs) ==
    IF evs = <<>> THEN <<>>
    ELSE (IF Head(evs).type = "raw_response_event" /\ Head(evs).hasDelta
            THEN Head(evs).delta ELSE <<>>) \o ConcatDeltas(Tail(evs))

WithRole(h, r) == { i \in 1..Len(h) : h[i].role = r }

IsPrefix(a, b) == Len(a) <= Len(b) /\ SubSeq(b, 1, Len(a)) = a

\* C4: two turns of one session are never in progress together: a user message
\* is appended and its run started only after the session's previous turn has
\* drained or failed.
C4_TurnsSequential ==
    \A t \in Turns, u \in Turns :
        (t # u /\ InFlight(t) /\ InFlight(u)) => turn[t].session # turn[u].session

\* C5: the tool set of a turn's agent is the set of providers in the tool cache
\* at the moment the turn began.
C5_ToolSetIsSnapshot ==
    \A t \in Turns :
        turn[t].pc \in {"stream", "done"} => turn[t].servers = turn[t].cacheAtStart

\* C6: a turn that completes appends exactly one assistant message, whose content
\* is the concatenation in arrival order of the texts of the turn's delta events,
\* whatever other events lie between them; a session's history holds one
\* assistant message per completed turn.
C6_AssistantIsConcatOfDeltas ==
    /\ [](\A s \in Sessions :
            Cardinality(WithRole(message_history[s], "assistant"))
              = Cardinality({ t \in Turns : turn[t].pc = "done" /\ turn[t].session = s }))
    /\ [][ \A t \in Turns :
             (turn[t].pc # "done" /\ turn'[t].pc = "done") =>
                message_history'[turn[t].session] =
                    Append(message_history[turn[t].session],
                           [role |-> "assistant", content |-> ConcatDeltas(turn[t].events)])
         ]_vars

\* deltas "A", ToolCall, "B" gave the one assistant message "AB"
C6_Witness ==
    \E t \in Turns :
        /\ turn[t].pc = "done"
        /\ turn[t].events = << DeltaA, ToolCall, DeltaB >>
        /\ LET h == message_history[turn[t].session] IN
             h[Len(h)] = [role |-> "assistant", content |-> <<"A", "B">>]

\* C7: once a session has ended, no further stream event of its turns is
\* processed and its history stays as it was when it ended.
C7_NoEventAfterSessionEnd ==
    [][ \A t \in Turns :
          (turn[t].pc # "idle" /\ status[turn[t].session] = "ended") =>
              /\ turn'[t].events = turn[t].events
              /\ message_history'[turn[t].session] = message_history[turn[t].session]
      ]_vars

\* C9: a session's history holds the seed, the user messages of that session's
\* turns and the assistant messages of that session's completed turns, and only
\* start_chat of that session or a step of one of its turns changes it.
C9_HistoriesIsolated ==
    /\ [](\A s \in Sessions :
            LET h == message_history[s]
                mine == { t \in Turns : turn[t].pc # "idle" /\ turn[t].session = s }
            IN /\ \A i \in WithRole(h, "system") : i = 1 /\ h[i] = SeedMessage
               /\ \A i \in WithRole(h, "user") :
                     \E t \in mine : h[i].content = << turn[t].text >>
               /\ \A i \in WithRole(h, "assistant") :
                     \E t \in mine : turn[t].pc = "done" /\ h[i].content = turn[t].content
               /\ Cardinality(WithRole(h, "user")) = Cardinality(mine)
               /\ Len(h) = Cardinality(WithRole(h, "system")) + Cardinality(WithRole(h, "user"))
                             + Cardinality(WithRole(h, "assistant")))
    /\ [][ \A s \in Sessions :
             message_history'[s] # message_history[s] =>
                \/ status[s] = "new" /\ status'[s] = "active"
                \/ \E t \in Turns : turn'[t] # turn[t] /\ turn'[t].session = s
         ]_vars

\* two sessions with overlapping turns, different texts and different replies
C9_Witness ==
    /\ turn[1].session = "sA" /\ turn[2].session = "sB"
    /\ turn[1].pc = "stream" /\ turn[1].content = <<"A">>
    /\ turn[2].pc = "done" /\ turn[2].content = <<"B">>
    /\ turn[1].text # turn[2].text
    /\ Len(message_history["sA"]) = 2 /\ Len(message_history["sB"]) = 3

\* C10: a history starts as the one seed system message, every step leaves the
\* history it finds as a prefix of the history it leaves, and the first entry
\* stays the seed.
C10_HistoryAppendOnly ==
    /\ [](\A s \in Sessions :
            status[s] # "new" =>
                Len(message_history[s]) >= 1 /\ message_history[s][1] = SeedMessage)
    /\ [][ \A s \in Sessions :
             /\ (status[s] = "new" /\ status'[s] # "new") =>
                    message_history'[s] = << SeedMessage >>
             /\ status[s] # "new" => IsPrefix(message_history[s], message_history'[s])
         ]_vars

\* a history of seed, user message and reply in a run that also handled a connect
C10_Witness ==
    \E s \in Sessions :
        /\ Len(message_history[s]) = 3
        /\ message_history[s][3].role = "assistant"
        /\ message_history[s][3].content # <<>>
        /\ mcp_tools_cache # EmptyDict

\* ==================================================== failures: claims
\* C11: every failure is told to the user: a turn whose run or stream failed has
\* sent an error message (what it had rendered stays), and a connect attempt
\* whose list_tools() failed has sent the error message.
C11_EveryFailureNotified ==
    /\ \A t \in Turns : turn[t].pc = "failed" => "error" \in turn[t].sent
    /\ \A c \in Sessions \X Names : mcpTask[c] = "error" => mcpOut[c].note = "error"

\* C12: a turn that fails (at setup or mid-stream) changes neither the state of
\* its session nor any history nor any other turn, and the session goes on
\* accepting messages; a failed connect changes no entry of the cache and no
\* other connect attempt.
C12_FailureAbortsOnlyTurn ==
    /\ [](\A t \in Turns, text \in UserTexts :
            (/\ turn[t].pc = "failed"
             /\ status[turn[t].session] = "active"
             /\ \E u \in Turns : turn[u].pc = "idle")
            => ENABLED OnMessageBegin(turn[t].session, text))
    /\ [][ /\ \A t \in Turns :
                (InFlight(t) /\ turn'[t].pc = "failed") =>
                    /\ status' = status
                    /\ message_history' = message_history
                    /\ \A u \in Turns \ {t} : turn'[u] = turn[u]
           /\ \A c \in Sessions \X Names :
                (mcpTask[c] = "listing" /\ mcpTask'[c] \notin {"listing", "found"}) =>
                    /\ mcp_tools_cache' = mcp_tools_cache
                    /\ \A d \in (Sessions \X Names) \ {c} : mcpTask'[d] = mcpTask[d]
         ]_vars

\* a failed turn, then a completed turn with a reply in the same session
C12_Witness ==
    \E s \in Sessions :
        /\ turn[1].pc = "failed" /\ turn[1].session = s
        /\ turn[2].pc = "done" /\ turn[2].session = s /\ turn[2].content # <<>>
        /\ Len(message_history[s]) = 4
        /\ message_history[s][2].role = "user"
        /\ message_history[s][3].role = "user"
        /\ message_history[s][4] = [role |-> "assistant", content |-> turn[2].content]

\* ==================================================== rendering: claims
\* the render actions the events of the three handled shapes call for, in order
RECURSIVE RenderKinds(_)
RenderKinds(evs) ==
    IF evs = <<>> THEN <<>>
    ELSE LET e == Head(evs) IN
         (IF e.type = "raw_response_event" /\ e.hasDelta THEN <<"token">>
          ELSE IF e.type = "tool_call_event" THEN <<"tool_call">>
          ELSE IF e.type = "tool_result_event" THEN <<"tool_result">>
          ELSE <<>>) \o RenderKinds(Tail(evs))

Unhandled(e) ==
    /\ ~(e.type = "raw_response_event" /\ e.hasDelta)
    /\ e.type \notin {"tool_call_event", "tool_result_event"}

\* C15: within a turn the render actions are the emitted delta, tool-call and
\* tool-result events, kind by kind, in the order of emission.
C15_RenderedInEmissionOrder ==
    \A t \in Turns : turn[t].rendered = RenderKinds(turn[t].events)

C15_Witness ==
    \E t \in Turns :
        /\ turn[t].events = << DeltaA, ToolCall, ToolResult >>
        /\ turn[t].rendered = << "token", "tool_call", "tool_result" >>

\* C19: an event of none of the three handled shapes changes neither the reply
\* in progress nor what is rendered nor any history, and the turn stays in its
\* loop.
C19_UnhandledEventSkipped ==
    [][ \A t \in Turns :
          (/\ Len(turn'[t].events) = Len(turn[t].events) + 1
           /\ Unhandled(turn'[t].events[Len(turn'[t].events)])) =>
              /\ turn'[t] = [turn[t] EXCEPT !.events = turn'[t].events]
              /\ turn'[t].pc = "stream"
              /\ message_history' = message_history
      ]_vars

\* two skipped events, then a delta that is processed
C19_Witness ==
    \E t \in Turns :
        /\ turn[t].events = << RawNoDelta, OtherEvent, DeltaA >>
        /\ turn[t].content = <<"A">>
        /\ turn[t].rendered = <<"token">>
        /\ turn[t].pc = "done"

\* ======================================== MCP handlers: further claims
SuccessBy(s, n)    == [kind |-> "success", session |-> s, name |-> n]
DisconnectBy(s, n) == [kind |-> "disconnect", session |-> s, name |-> n]

\* the cache after the step is the cache before it with name n set to tools and
\* nothing else changed
CacheSetTo(n, tools) ==
    /\ DOMAIN mcp_tools_cache' = DOMAIN mcp_tools_cache \cup {n}
    /\ mcp_tools_cache'[n] = tools
    /\ \A m \in DOMAIN mcp_tools_cache \ {n} : mcp_tools_cache'[m] = mcp_tools_cache[m]

\* the cache after the step is the cache before it without name n
CacheWithout(n) ==
    /\ DOMAIN mcp_tools_cache' = DOMAIN mcp_tools_cache \ {n}
    /\ \A m \in DOMAIN mcp_tools_cache' : mcp_tools_cache'[m] = mcp_tools_cache[m]

ConnectEnds(c) == mcpTask[c] = "listing" /\ mcpTask'[c] # "listing"

\* C13: whatever sends fail, a connect whose list_tools() succeeded puts its
\* tools into the cache and a disconnect removes the name from the cache and
\* from the session's mapping, as with a working channel.
C13_NotifyFailureKeepsTransition ==
    [][ \A s \in Sessions, n \in Names :
          /\ mcpLog' = Append(mcpLog, SuccessBy(s, n)) =>
                /\ CacheSetTo(n, mcpOut'[<<s, n>>].returned)
                /\ mcpOut'[<<s, n>>].returned \in ToolLists
                /\ n \in DOMAIN mcp_tools'[s]
                /\ mcp_tools'[s][n] = mcp_tools_cache'[n]
          /\ mcpLog' = Append(mcpLog, DisconnectBy(s, n)) =>
                /\ CacheWithout(n)
                /\ n \notin DOMAIN mcp_tools'[s]
      ]_vars

\* a connect both of whose sends failed has its name cached, and a disconnect
\* whose send failed has removed a name that was cached
C13_Witness ==
    \E s \in Sessions, n \in Names, m \in Names :
        /\ n # m
        /\ mcpTask[<<s, n>>] = "raised" /\ n \in DOMAIN mcp_tools_cache
        /\ mcpOut[<<s, m>>].disc = "raised" /\ m \notin DOMAIN mcp_tools_cache
        /\ \E i \in 1..Len(mcpLog) : mcpLog[i] = SuccessBy(s, m)

\* C16: a successful connect leaves one entry for its name, holding the list its
\* own list_tools() returned, also when the name was cached before, and leaves
\* the entries of all other names as they were.
C16_ConnectOverwrites ==
    [][ \A s \in Sessions, n \in Names :
          (mcpTask[<<s, n>>] = "listing" /\ mcpTask'[<<s, n>>] = "found") =>
              CacheSetTo(n, mcpOut'[<<s, n>>].returned)
      ]_vars

\* name n connected twice in a row with different lists, name m connected before
C16_Witness ==
    \E a \in Sessions, b \in Sessions, n \in Names, m \in Names :
        /\ n # m /\ a # b
        /\ mcpLog = << SuccessBy(a, m), SuccessBy(a, n), SuccessBy(b, n) >>
        /\ mcpOut[<<a, n>>].returned # mcpOut[<<b, n>>].returned
        /\ mcp_tools_cache[n] = mcpOut[<<b, n>>].returned
        /\ mcp_tools_cache[m] = mcpOut[<<a, m>>].returned

C18_NotificationMatchesCache ==
    [][ \A s \in Sessions, n \in Names :
          LET c == <<s, n>> IN
          ConnectEnds(c) =>
              /\ mcpOut'[c].note = "found" =>
                    /\ n \in DOMAIN mcp_tools_cache'
                    /\ mcp_tools_cache'[n] = mcpOut'[c].returned
                    /\ Len(mcp_tools_cache'[n]) = mcpOut'[c].count
              /\ mcpOut'[c].note = "error" =>
                    /\ mcpLog' = Append(mcpLog, [kind |-> "failure", session |-> s, name |-> n])
                    /\ mcp_tools_cache' = mcp_tools_cache
      ]_vars

\* ================================================ turns and connect attempts
\* C14: a turn in flight ends (its stream exhausted, failed or cancelled) even
\* when a connect attempt never comes back from list_tools(), and the turn that
\* exhausts its stream appends its assistant message; while a turn is in flight
\* the connect and disconnect handlers can still run and a pending list_tools()
\* can still return or raise.
C14_NoMutualBlocking ==
    /\ \A t \in Turns :
          InFlight(t) ~> (turn[t].pc \in {"done", "failed", "cancelled"})
    /\ [][ \A t \in Turns :
             (turn[t].pc = "stream" /\ turn'[t].pc = "done") =>
                 message_history'[turn[t].session] =
                     Append(message_history[turn[t].session],
                            [role |-> "assistant", content |-> turn[t].content])
       ]_vars
    /\ [](\A t \in Turns : InFlight(t) =>
            \A s \in Sessions, n \in Names :
               /\ mcpTask[<<s, n>>] = "listing" =>
                     /\ ENABLED OnMcpError(s, n)
                     /\ \A tools \in ToolLists : ENABLED OnMcpTools(s, n, tools)
               /\ (status[s] = "active" /\ McpBudgetLeft) =>
                     /\ ENABLED OnMcpDisconnect(s, n)
                     /\ mcpTask[<<s, n>>] # "listing" => ENABLED OnMcpBegin(s, n))

\* a turn has run to its end and appended its reply while a connect attempt is
\* still waiting in list_tools()
C14_Witness ==
    \E t \in Turns, c \in Sessions \X Names :
        /\ turn[t].pc = "done"
        /\ Len(turn[t].events) > 0
        /\ mcpTask[c] = "listing"
        /\ message_history[turn[t].session][Len(message_history[turn[t].session])]
              = [role |-> "assistant", content |-> turn[t].content]

\* ============================================================ batch script
\* the position of model m in the provider's list
ModelIndex(m) ==
    CHOOSE i \in 1..Len(llm_model_list(cli.provider)) : llm_model_list(cli.provider)[i] = m

EntryKind(outcome) == IF outcome = "returned" THEN "Response" ELSE "Error"

RECURSIVE EntriesIn(_)
EntriesIn(ms) ==
    IF ms = {} THEN 0
    ELSE LET m == CHOOSE x \in ms : TRUE IN Len(cli.files[m]) + EntriesIn(ms \ {m})

\* C20: main ends by an exception only for an unsupported provider, before any
\* completion; the j-th entry of the file of the i-th model is the entry of the
\* j-th prompt, a Response entry when that call of generate_completion returned
\* and an Error entry when it raised; there is one entry per call, and at the
\* end every model of the list has a file with one entry per prompt.
C20_FailingCompletionKeepsBatch ==
    LET ms == llm_model_list(cli.provider)
        np == Len(prompts_list)
    IN
    /\ cli.pc = "raised" => (ms = << >> /\ cli.calls = << >>)
    /\ \A m \in DOMAIN cli.files : \A j \in 1..Len(cli.files[m]) :
          /\ j <= np
          /\ (ModelIndex(m) - 1) * np + j <= Len(cli.calls)
          /\ cli.files[m][j] =
                Entry(j, EntryKind(cli.calls[(ModelIndex(m) - 1) * np + j]))
    /\ EntriesIn(DOMAIN cli.files) = Len(cli.calls)
    /\ cli.pc = "done" =>
          /\ DOMAIN cli.files = { ms[i] : i \in 1..Len(ms) }
          /\ \A m \in DOMAIN cli.files : Len(cli.files[m]) = np

\* a finished batch whose first completion raised and whose last one returned
C20_Witness ==
    /\ cli.pc = "done"
    /\ cli.calls[1] = "raised"
    /\ cli.calls[Len(cli.calls)] = "returned"
    /\ \E m \in DOMAIN cli.files :
          /\ cli.files[m][1].kind = "Error"
          /\ \E j \in 1..Len(cli.files[m]) : cli.files[m][j].kind = "Response"

====
